---- MODULE Spec2Model ----
(***************************************************************************)
(* BrowserManager (src/src/browser-manager.ts) and the shutdown path of    *)
(* DebuggerMCPServer (src/unnamed/part_003) as a state machine.            *)
(*                                                                         *)
(* JavaScript runs one task at a time; a task gives up control only at an  *)
(* await.  Every action below is the code of one task between two awaits.  *)
(* What is awaited (path resolution, puppeteer.launch, page.close,         *)
(* browser.close, page.goto) completes in an environment action of its own.*)
(* The event loop runs the continuations that are ready before it takes    *)
(* the next I/O completion or timer: environment actions wait for Quiet.   *)
(***************************************************************************)
EXTENDS Integers, Sequences, FiniteSets, TLC

(* ------------------------------ bounds -------------------------------- *)
\* Concurrent callers of the BrowserManager API.
NumTasks == 2
\* Initialization attempts (async bodies of initialize()) per behaviour.
MaxAttempts == 2
\* Pages browser.newPage() may create per behaviour.
MaxNewPages == 3
\* Hosts the callers ask pages for.
NumHosts == 3
\* Times the clock may advance.
MaxTime == 1
\* Shutdown triggers the hosting process may deliver.
MaxTriggers == 3
\* Calls of the API per behaviour.
MaxCalls == 3
\* browser-manager.ts:17 fixes maxPages at 5; the model scales it down and
\* every statement about it is made for whatever value it has.
maxPages == 2
NumCandidates == 2

(* --------------------------- program constants ------------------------ *)
\* cleanupOldPages, line 414: 10 * 60 * 1000 ms, in minutes.
maxAge == 10

Tasks == 1..NumTasks
Hosts == 1..NumHosts

(* ------------------------------- URLs --------------------------------- *)
\* A URL string by its parts: "example.com" is [scheme |-> "none", host, path
\* |-> ""], "https://example.com" has scheme "https" and path "".
AbsUrl(h) == [scheme |-> "https", host |-> h, path |-> "/"]
NoSlashUrl(h) == [scheme |-> "https", host |-> h, path |-> ""]
BareUrl(h) == [scheme |-> "none", host |-> h, path |-> ""]
\* getPage() called without an argument.
NoUrl == [scheme |-> "none", host |-> 0, path |-> ""]
\* What page.url() gives for a page that never navigated.
BlankUrl == [scheme |-> "about", host |-> 0, path |-> "blank"]
\* Where a redirecting site leaves the page: a URL nobody asked for.
ElsewhereUrl == [scheme |-> "https", host |-> 0, path |-> "/"]

\* The URLs callers pass in.
Urls == {AbsUrl(h) : h \in Hosts} \cup {NoSlashUrl(1), BareUrl(1)}

\* new URL(url) parses: the string carries a scheme.
ParsesAsUrl(url) == url.scheme # "none"

\* URL.href of a parsed URL: an empty path becomes "/".
Href(url) == IF url.path = "" THEN [url EXCEPT !.path = "/"] ELSE url

\* BrowserManager.normalizeUrl
normalizeUrl(url) ==
    IF ParsesAsUrl(url)
    THEN Href(url)
    ELSE IF url.scheme \notin {"http", "https"}
         THEN [url EXCEPT !.scheme = "https"]
         ELSE url

(* ------------------------------- state -------------------------------- *)
VARIABLES
    browser,        \* this.browser: 0 is null, else the id of a process
    initializing,   \* this.initializing: 0 is null, else the id of an attempt
    cleanupTimer,   \* this.cleanupTimer is set
    pages,          \* this.pages, a Map: its entries in insertion order
    nextSeq,        \* insertions into this.pages so far (orders Map iteration)
    attempts,       \* the async bodies started at line 87, by id
    procs,          \* the browser processes puppeteer.launch started, by id
    pg,             \* the Page objects browser.newPage() returned, by id
    now,            \* Date.now(), in minutes
    task,           \* the callers: where each stands in its operation
    isShuttingDown, \* DebuggerMCPServer.isShuttingDown
    exited,         \* process.exit() was called
    exitCode,       \* the status it was called with
    triggers,       \* history: shutdown triggers delivered so far
    shutdownCloses, \* history: close() calls made by gracefulShutdown
    calls           \* history: calls of the API so far

mgrVars == <<browser, initializing, cleanupTimer, pages, nextSeq>>
envVars == <<attempts, procs, pg, now>>
srvVars == <<isShuttingDown, exited, exitCode, triggers, shutdownCloses>>
vars == <<mgrVars, envVars, srvVars, task, calls>>

\* A caller that has not called yet, or whose timer callback is over.
Idle ==
    [pc |-> "idle", op |-> "none", url |-> NoUrl, att |-> 0, page |-> 0,
     br |-> 0, list |-> <<>>, wait |-> {}, cur |-> 0, at |-> 0,
     seen |-> {}, dead |-> 0, code |-> 0, late |-> FALSE, ready |-> FALSE, cause |-> "none",
     res |-> "none"]

Init ==
    /\ browser = 0
    /\ initializing = 0
    /\ cleanupTimer = FALSE
    /\ pages = <<>>
    /\ nextSeq = 0
    /\ attempts = <<>>
    /\ procs = <<>>
    /\ pg = <<>>
    /\ now = 0
    /\ task = [t \in Tasks |-> Idle]
    /\ isShuttingDown = FALSE
    /\ exited = FALSE
    /\ exitCode = 0
    /\ triggers = 0
    /\ shutdownCloses = 0
    /\ calls = 0

(* ------------------------------ helpers ------------------------------- *)
AttemptIds == 1..Len(attempts)
ProcIds == 1..Len(procs)
PageIds == 1..Len(pg)

\* The async body of an attempt has not yet reached its finally block.
InFlight(a) == attempts[a].st \in {"resolving", "launching"}
AttemptDone(a) == ~InFlight(a)
AttemptsInFlight == {a \in AttemptIds : InFlight(a)}

\* Attempts that got as far as calling puppeteer.launch.
LaunchCalls == {a \in AttemptIds : attempts[a].st \in {"launching", "ok", "launchFailed"}}

LiveProcs == {b \in ProcIds : procs[b].st # "dead"}

\* page.isClosed()
IsClosed(p) == pg[p].st = "closed"

\* The promise of browser.close() has settled: the process is gone, or
\* close() rejected and the catch of lines 454-457 logged the error.
BrowserCloseSettled(b) == procs[b].st \in {"dead", "closeFailed"}

\* The promise of page.close() has settled: the page is gone, or close()
\* rejected and the catch around it swallowed the error.
CloseSettled(p) == pg[p].st \in {"closed", "closeFailed"}

\* A caller finishes its operation with a result; what it kept for its own
\* use between awaits is gone.
Finish(r, res) ==
    [r EXCEPT !.pc = "done", !.res = res, !.br = 0, !.list = <<>>, !.wait = {},
              !.cur = 0, !.late = FALSE, !.ready = FALSE]

Min(a, b) == IF a < b THEN a ELSE b

\* What the caller awaits has settled: its continuation is queued as a
\* microtask.
Runnable(t) ==
    \/ task[t].pc \in {"init_wait", "gp_init_wait", "cl_init_wait"} /\ AttemptDone(task[t].att)
    \/ task[t].pc = "cap_wait" /\ \A p \in task[t].wait : CloseSettled(p)
    \/ task[t].pc \in {"cl_browser", "gp_cleaned", "nav_check"}
    \/ task[t].pc = "cl_browser_wait" /\ BrowserCloseSettled(task[t].br)
    \/ task[t].pc = "gp_evict_wait" /\ CloseSettled(Head(task[t].list).page)
    \/ task[t].pc \in {"cp_wait", "sw_wait"} /\ CloseSettled(task[t].page)

\* The event loop runs the queued microtasks before it takes the next I/O
\* completion or timer: those happen when no continuation is queued.
Quiet == \A t \in Tasks : ~Runnable(t)

\* The caller is between two operations: it can make a call, and a timer
\* callback can run.  Until then its record keeps what its last call gave.
\* Callers between operations are alike: the lowest goes first.
Available(t) == task[t].pc \in {"idle", "done"}
Free(t) == Available(t) /\ \A u \in Tasks : u < t => ~Available(u)

SetTask(t, r) == task' = [task EXCEPT ![t] = r]

\* History: initialize() is called while these close() calls are under way.
MarkLate(tk) ==
    [u \in Tasks |->
        IF tk[u].op \in {"close", "shutdown"} /\ tk[u].pc # "done"
        THEN [tk[u] EXCEPT !.late = TRUE] ELSE tk[u]]

SetTaskInInitialize(t, r) == task' = MarkLate([task EXCEPT ![t] = r])

(* --------------------------- initialize() ----------------------------- *)
\* line 77: if (this.browser)
BrowserSet == browser # 0

\* An initialize() that does not look at the lock.
NeverPending == FALSE

\* line 82: if (this.initializing)
InitPending == initializing # 0

\* initialize() with this.browser null, lines 82-121, as far as the caller's
\* await: join the attempt in flight, or start one.  The async body started
\* at line 87 runs to its first await (line 95) before line 87 assigns.
EnterInitialize(t, r) ==
    /\ IF InitPending
       THEN /\ SetTaskInInitialize(t, [r EXCEPT !.att = initializing])
            /\ UNCHANGED <<initializing, attempts>>
       ELSE /\ Len(attempts) < MaxAttempts
            /\ attempts' = Append(attempts, [st |-> "resolving", br |-> 0])
            /\ initializing' = Len(attempts) + 1
            /\ SetTaskInInitialize(t, [r EXCEPT !.att = Len(attempts) + 1])

\* A caller calls initialize().
InitializeCall(t) ==
    /\ Free(t)
    /\ LET r == [Idle EXCEPT !.op = "initialize", !.seen = AttemptsInFlight] IN
       IF BrowserSet
       THEN /\ SetTaskInInitialize(t, Finish(r, "ok"))
            /\ UNCHANGED <<initializing, attempts>>
       ELSE EnterInitialize(t, [r EXCEPT !.pc = "init_wait"])
    /\ UNCHANGED <<browser, cleanupTimer, pages, nextSeq, procs, pg, now,
                   srvVars>>

\* findChromeExecutablePath() settles (line 95): with a path the body calls
\* puppeteer.launch, without one it goes through catch and finally.
ResolvePath(a) ==
    /\ attempts[a].st = "resolving"
    /\ Quiet
    /\ \E found \in BOOLEAN :
         IF found
         THEN /\ attempts' = [attempts EXCEPT ![a].st = "launching"]
              /\ UNCHANGED initializing
         ELSE /\ attempts' = [attempts EXCEPT ![a].st = "resolveFailed"]
              /\ initializing' = 0
    /\ UNCHANGED <<browser, cleanupTimer, pages, nextSeq, procs, pg, now,
                   srvVars, task>>

\* process.env.PUPPETEER_EXECUTABLE_PATH (line 130): undefined, the empty
\* string, or a path.  Paths are numbered: those of the platform's list in
\* its order, then one that is not on the list.
EnvUnset == -1
EmptyPath == 0
searchPaths == [i \in 1..NumCandidates |-> i]
OverridePath == NumCandidates + 1
Paths == 1..OverridePath
EnvValues == {EnvUnset, EmptyPath} \cup Paths

\* What is at a path: nothing, a file the process may not read, a file it
\* may read.
FileStates == {"missing", "unreadable", "readable"}

\* checkFileExists(filePath), lines 201-216: existsSync, then access()
\* with its default mode, which tests that the file is there.
checkFileExists(files, path) == path # EmptyPath /\ files[path] # "missing"

\* findChromeExecutablePath(), lines 128-196: names are the paths the error
\* message lists.
findChromeExecutablePath(env, files) ==
    IF env # EnvUnset /\ env # EmptyPath
    THEN IF checkFileExists(files, env)
         THEN [ok |-> TRUE, path |-> env, names |-> {}]
         ELSE [ok |-> FALSE, path |-> EmptyPath, names |-> {env}]
    ELSE LET found == {i \in DOMAIN searchPaths : checkFileExists(files, searchPaths[i])}
         IN IF found # {}
            THEN [ok |-> TRUE,
                  path |-> searchPaths[CHOOSE i \in found : \A j \in found : i <= j],
                  names |-> {}]
            ELSE [ok |-> FALSE, path |-> EmptyPath,
                  names |-> {searchPaths[i] : i \in DOMAIN searchPaths}]

\* findChromeExecutablePath() settles (line 95) in an environment and on a
\* file system, which the attempt keeps with what came of them.
ResolvePathFrom(a, env, files) ==
    /\ attempts[a].st = "resolving"
    /\ Quiet
    /\ LET r == findChromeExecutablePath(env, files) IN
         /\ attempts' = [attempts EXCEPT ![a] =
                            [st |-> IF r.ok THEN "launching" ELSE "resolveFailed",
                             br |-> 0, env |-> env, files |-> files,
                             path |-> r.path, names |-> r.names]]
         /\ initializing' = IF r.ok THEN initializing ELSE 0
    /\ UNCHANGED <<browser, cleanupTimer, pages, nextSeq, procs, pg, now,
                   srvVars, task>>

\* An initialize() that starts no timer.
TimerNotStarted == FALSE

\* startPageCleanup(), lines 363-371
startPageCleanup == TRUE

\* puppeteer.launch settles (lines 97-118): on success the body stores the
\* browser and starts the timer; either way finally clears this.initializing.
LaunchSettles(a) ==
    /\ attempts[a].st = "launching"
    /\ Quiet
    /\ \E ok \in BOOLEAN :
         IF ok
         THEN /\ procs' = Append(procs, [st |-> "alive", closeCalls |-> 0, readyCloses |-> 0])
              /\ browser' = Len(procs) + 1
              /\ cleanupTimer' = (cleanupTimer \/ startPageCleanup)
              /\ attempts' = [attempts EXCEPT ![a] = [st |-> "ok", br |-> Len(procs) + 1]]
         ELSE /\ attempts' = [attempts EXCEPT ![a].st = "launchFailed"]
              /\ UNCHANGED <<procs, browser, cleanupTimer>>
    /\ initializing' = 0
    /\ UNCHANGED <<pages, nextSeq, pg, now, srvVars, task>>

\* An attempt whose failure is not passed on.
AlwaysOk(a) == "ok"

\* What a caller awaiting attempt a gets.
Outcome(a) == IF attempts[a].st = "ok" THEN "ok" ELSE "err"

\* lines 108-114: the error thrown has the message of the one caught, which
\* tells the step that failed.
Cause(a) == IF attempts[a].st = "ok" THEN "none" ELSE attempts[a].st

\* The promise a caller of initialize() awaits settles.
InitializeResume(t) ==
    /\ task[t].pc = "init_wait"
    /\ AttemptDone(task[t].att)
    /\ SetTask(t, [Finish(task[t], Outcome(task[t].att))
                      EXCEPT !.cause = Cause(task[t].att)])
    /\ UNCHANGED <<mgrVars, envVars, srvVars>>

(* ----------------------- closeAllPages(), close() --------------------- *)
\* A closeAllPages() that closes no page.
NoneLivePooled == {}

\* Pages of the pool that closeAllPages() calls close() on (line 345).
LivePooled == {pages[i].page : i \in {j \in DOMAIN pages : ~IsClosed(pages[j].page)}}

\* page.close() is called on every page of ps; byReady: by a close() that
\* was called on a manager with its browser set.
WithCloseCalled(ps, byReady) ==
    [p \in PageIds |->
        IF p \in ps
        THEN [pg[p] EXCEPT !.st = IF @ \in {"open", "closeFailed"} THEN "closing" ELSE @,
                           !.closeCalls = Min(@ + 1, 2),
                           !.readyCloses = IF byReady THEN Min(@ + 1, 2) ELSE @]
        ELSE pg[p]]

\* closeAllPages(), lines 343-356: call close() on every live pooled page
\* and await them all.
BeginCloseAllPages(t, r) ==
    /\ pg' = WithCloseCalled(LivePooled, r.ready)
    /\ SetTask(t, [r EXCEPT !.pc = "cap_wait", !.wait = LivePooled])

\* stopPageCleanup(), lines 376-381
stopPageCleanup == FALSE

\* close(), lines 435-449, as far as its first await.
EnterClose(t, r) ==
    /\ cleanupTimer' = stopPageCleanup
    /\ IF InitPending
       THEN /\ SetTask(t, [r EXCEPT !.pc = "cl_init_wait", !.att = initializing])
            /\ UNCHANGED pg
       ELSE BeginCloseAllPages(t, r)

\* A caller calls close().
CloseCall(t) ==
    /\ Free(t)
    /\ EnterClose(t, [Idle EXCEPT !.op = "close", !.seen = AttemptsInFlight,
                                  !.ready = BrowserSet /\ ~InitPending])
    /\ UNCHANGED <<browser, initializing, pages, nextSeq, attempts, procs, now,
                   srvVars>>

\* close(), lines 442-449: the awaited attempt settled; its failure is logged.
CloseAfterInit(t) ==
    /\ task[t].pc = "cl_init_wait"
    /\ AttemptDone(task[t].att)
    /\ BeginCloseAllPages(t, task[t])
    /\ UNCHANGED <<mgrVars, attempts, procs, now, srvVars>>

\* A caller calls closeAllPages().
CloseAllPagesCall(t) ==
    /\ Free(t)
    /\ BeginCloseAllPages(t, [Idle EXCEPT !.op = "closeAllPages"])
    /\ UNCHANGED <<mgrVars, attempts, procs, now, srvVars>>

\* closeAllPages(), lines 356-357: every close() settled; clear the map.
CloseAllPagesResume(t) ==
    /\ task[t].pc = "cap_wait"
    /\ \A p \in task[t].wait : CloseSettled(p)
    /\ pages' = <<>>
    /\ SetTask(t, IF task[t].op = "closeAllPages"
                  THEN Finish([task[t] EXCEPT !.wait = {}], "ok")
                  ELSE [task[t] EXCEPT !.pc = "cl_browser", !.wait = {}])
    /\ UNCHANGED <<browser, initializing, cleanupTimer, nextSeq, envVars,
                   srvVars>>

\* The end of close(): back in the caller, or in gracefulShutdown (line 147).
AfterClose(r) ==
    IF r.op = "shutdown" THEN [r EXCEPT !.pc = "gs_server"] ELSE Finish(r, "ok")

\* close(), lines 451-462 with this.browser read at line 451: call
\* browser.close() and await it, or clear this.initializing and return.
CloseBrowser(t) ==
    /\ task[t].pc = "cl_browser"
    /\ IF BrowserSet
       THEN /\ procs' = [procs EXCEPT ![browser].closeCalls = Min(@ + 1, 2),
                                      ![browser].readyCloses =
                                          IF task[t].ready THEN Min(@ + 1, 2) ELSE @,
                                      ![browser].st = IF @ \in {"alive", "closeFailed"}
                                                       THEN "closing" ELSE @]
            /\ SetTask(t, [task[t] EXCEPT !.pc = "cl_browser_wait", !.br = browser])
            /\ UNCHANGED initializing
       ELSE /\ initializing' = 0
            /\ SetTask(t, AfterClose(task[t]))
            /\ UNCHANGED procs
    /\ UNCHANGED <<browser, cleanupTimer, pages, nextSeq, attempts, pg, now, srvVars>>

\* The browser process ends after browser.close(): its pages are gone too.
BrowserExits(b) ==
    /\ procs[b].st = "closing"
    /\ Quiet
    /\ procs' = [procs EXCEPT ![b].st = "dead"]
    /\ pg' = [p \in PageIds |-> IF pg[p].br = b THEN [pg[p] EXCEPT !.st = "closed"] ELSE pg[p]]
    /\ UNCHANGED <<mgrVars, attempts, now, srvVars, task>>

\* browser.close() rejects (the connection is lost, the process does not
\* answer): the process is still there.
BrowserCloseFails(b) ==
    /\ procs[b].st = "closing"
    /\ Quiet
    /\ procs' = [procs EXCEPT ![b].st = "closeFailed"]
    /\ UNCHANGED <<mgrVars, attempts, pg, now, srvVars, task>>

\* close(), lines 453-462: browser.close() settled (an error is logged).
CloseBrowserResume(t) ==
    /\ task[t].pc = "cl_browser_wait"
    /\ BrowserCloseSettled(task[t].br)
    /\ browser' = 0
    /\ initializing' = 0
    /\ SetTask(t, AfterClose(task[t]))
    /\ UNCHANGED <<cleanupTimer, pages, nextSeq, envVars, srvVars>>

(* ------------------------------ the pool ------------------------------ *)
\* this.pages.has(url), .get(url), .delete(url)
Has(ps, url) == \E i \in DOMAIN ps : ps[i].url = url
Get(ps, url) == ps[CHOOSE i \in DOMAIN ps : ps[i].url = url]
Delete(ps, url) == SelectSeq(ps, LAMBDA e : e.url # url)

\* this.pages.set(url, {page, url, createdAt: new Date()}): an existing key
\* keeps its place in the Map's order, a new key goes last.
SetEntry(ps, url, page, seq) ==
    IF Has(ps, url)
    THEN [i \in DOMAIN ps |->
            IF ps[i].url = url
            THEN [ps[i] EXCEPT !.page = page, !.createdAt = now]
            ELSE ps[i]]
    ELSE Append(ps, [url |-> url, page |-> page, createdAt |-> now, seq |-> seq])

\* Array.prototype.sort with the comparator of line 393: stable, by createdAt.
RECURSIVE SortByCreatedAt(_)
InsertByCreatedAt(e, s) ==
    LET before == SelectSeq(s, LAMBDA x : x.createdAt <= e.createdAt)
        after == SelectSeq(s, LAMBDA x : x.createdAt > e.createdAt)
    IN before \o <<e>> \o after
SortByCreatedAt(ps) ==
    IF ps = <<>> THEN <<>>
    ELSE InsertByCreatedAt(ps[Len(ps)], SortByCreatedAt(SubSeq(ps, 1, Len(ps) - 1)))

\* line 387: if (this.pages.size < this.maxPages) return
HasRoom(ps) == Len(ps) < maxPages

\* A cleanupOldPagesIfNeeded() that removes nothing.
EvictNone(ps) == 0

\* line 395: how many entries cleanupOldPagesIfNeeded() removes.
EvictCount(ps) == Len(ps) - maxPages + 1

\* cleanupOldPagesIfNeeded(), lines 387-395: the entries to remove.
PagesToRemove(ps) ==
    IF HasRoom(ps) THEN <<>>
    ELSE SubSeq(SortByCreatedAt(ps), 1, Min(EvictCount(ps), Len(ps)))

\* The loop of lines 397-406 from the entry at the head of list, as far as
\* its next await: entries whose page is closed are deleted on the way; the
\* first one whose page is not is the one whose close() is awaited.
RECURSIVE EvictLoop(_, _)
EvictLoop(ps, list) ==
    IF list = <<>> THEN [pages |-> ps, list |-> <<>>, closing |-> 0]
    ELSE IF IsClosed(Head(list).page)
         THEN EvictLoop(Delete(ps, Head(list).url), Tail(list))
         ELSE [pages |-> ps, list |-> list, closing |-> Head(list).page]

(* ------------------------- getPage(), navigate() ---------------------- *)
\* A getPage() that fails after it has stored its page.
ThrowsAfterStoring(r, p) == Finish([r EXCEPT !.page = p, !.list = <<>>], "err")

\* getPage() returns page p: to its caller, or into navigate() (line 285).
GetPageReturns(r, p) ==
    IF r.op = "navigate"
    THEN [r EXCEPT !.pc = "nav_check", !.page = p, !.list = <<>>]
    ELSE Finish([r EXCEPT !.page = p, !.list = <<>>], "ok")

\* getPage() throws; navigate() does not catch it.
GetPageThrows(r) == Finish([r EXCEPT !.list = <<>>], "err")

\* A getPage() that hands out the pooled page whatever its state.
AlwaysReusable(p) == TRUE

\* line 238: the pooled page is handed out again if it is not closed.
Reusable(p) == ~IsClosed(p)

\* getPage(url) with a browser, lines 231-247, as far as its next await.
LookupUrl(t, r) ==
    LET n == normalizeUrl(r.url)
        hit == Has(pages, n)
    IN IF hit /\ Reusable(Get(pages, n).page)
       THEN /\ SetTask(t, GetPageReturns(r, Get(pages, n).page))
            /\ UNCHANGED <<pages, pg>>
       ELSE LET ps == IF hit THEN Delete(pages, n) ELSE pages
                ev == EvictLoop(ps, PagesToRemove(ps))
            IN /\ pages' = ev.pages
               /\ pg' = WithCloseCalled(IF ev.closing = 0 THEN {} ELSE {ev.closing}, FALSE)
               /\ SetTask(t, [r EXCEPT !.pc = IF ev.closing = 0 THEN "gp_cleaned" ELSE "gp_evict_wait",
                                      !.dead = IF hit THEN Get(pages, n).page ELSE 0,
                                      !.list = ev.list])

\* getPage() without a URL and with a browser, lines 270-276.
LookupAny(t, r) ==
    /\ IF pages # <<>> /\ Reusable(pages[1].page)
       THEN SetTask(t, GetPageReturns(r, pages[1].page))
       ELSE SetTask(t, [r EXCEPT !.pc = "gp_newpage_wait", !.br = browser])
    /\ UNCHANGED <<pages, pg>>

Lookup(t, r) == IF r.url = NoUrl THEN LookupAny(t, r) ELSE LookupUrl(t, r)

\* getPage(), lines 221-247, as far as its first await.
EnterGetPage(t, r) ==
    IF BrowserSet
    THEN /\ Lookup(t, r)
         /\ UNCHANGED <<initializing, attempts>>
    ELSE /\ EnterInitialize(t, [r EXCEPT !.pc = "gp_init_wait"])
         /\ UNCHANGED <<pages, pg>>

\* A caller calls getPage(url) or getPage().
GetPageCall(t, url) ==
    /\ Free(t)
    /\ EnterGetPage(t, [Idle EXCEPT !.op = "getPage", !.url = url])
    /\ UNCHANGED <<browser, cleanupTimer, nextSeq, procs, now, srvVars>>

\* A caller calls navigate(url).
NavigateCall(t, url) ==
    /\ Free(t)
    /\ EnterGetPage(t, [Idle EXCEPT !.op = "navigate", !.url = url])
    /\ UNCHANGED <<browser, cleanupTimer, nextSeq, procs, now, srvVars>>

\* getPage(), lines 223-247: the awaited initialize() settled.
GetPageAfterInit(t) ==
    /\ task[t].pc = "gp_init_wait"
    /\ AttemptDone(task[t].att)
    /\ IF Outcome(task[t].att) = "ok" /\ BrowserSet
       THEN Lookup(t, task[t])
       ELSE /\ SetTask(t, GetPageThrows(task[t]))
            /\ UNCHANGED <<pages, pg>>
    /\ UNCHANGED <<browser, initializing, cleanupTimer, nextSeq, attempts, procs,
                   now, srvVars>>

\* cleanupOldPagesIfNeeded(), lines 400-406: the awaited close() settled;
\* delete the entry's key and go on with the loop.
EvictResume(t) ==
    /\ task[t].pc = "gp_evict_wait"
    /\ CloseSettled(Head(task[t].list).page)
    /\ LET ev == EvictLoop(Delete(pages, Head(task[t].list).url), Tail(task[t].list))
       IN /\ pages' = ev.pages
          /\ pg' = WithCloseCalled(IF ev.closing = 0 THEN {} ELSE {ev.closing}, FALSE)
          /\ SetTask(t, [task[t] EXCEPT !.pc = IF ev.closing = 0 THEN "gp_cleaned" ELSE "gp_evict_wait",
                                        !.list = ev.list])
    /\ UNCHANGED <<browser, initializing, cleanupTimer, nextSeq, attempts, procs,
                   now, srvVars>>

\* getPage(), line 250: this.browser.newPage() is called.
GetPageNewPage(t) ==
    /\ task[t].pc = "gp_cleaned"
    /\ IF BrowserSet
       THEN SetTask(t, [task[t] EXCEPT !.pc = "gp_newpage_wait", !.br = browser])
       ELSE SetTask(t, GetPageThrows(task[t]))
    /\ UNCHANGED <<mgrVars, envVars, srvVars>>

\* browser.newPage() and page.setViewport() settle (lines 250-257, 276-278):
\* a page of a running browser, or an error.  With a URL, page.goto is next.
NewPageSettles(t) ==
    /\ task[t].pc = "gp_newpage_wait"
    /\ Quiet
    /\ \E ok \in BOOLEAN :
         IF ok
         THEN /\ procs[task[t].br].st # "dead"
              /\ Len(pg) < MaxNewPages
              /\ pg' = Append(pg, [st |-> "open", br |-> task[t].br, url |-> BlankUrl,
                                   closeCalls |-> 0, readyCloses |-> 0])
              /\ SetTask(t, IF task[t].url = NoUrl
                            THEN GetPageReturns(task[t], Len(pg) + 1)
                            ELSE [task[t] EXCEPT !.pc = "gp_goto_wait", !.page = Len(pg) + 1])
         ELSE /\ SetTask(t, GetPageThrows(task[t]))
              /\ UNCHANGED pg
    /\ UNCHANGED <<mgrVars, attempts, procs, now, srvVars>>

\* page.goto(url) can succeed: the page is there and url is a URL.
CanNavigate(p, url) == ~IsClosed(p) /\ ParsesAsUrl(url)

\* How page.goto rejects: with an error of the navigation, or because the
\* page did not settle within config.timeout (line 256).
GotoFailures == {"navigationFailed", "navigationTimeout"}

\* getPage(), lines 254-266: page.goto(url) settled.  On success the page is
\* stored under the normalized URL and returned; on failure getPage throws.
GotoSettles(t) ==
    /\ task[t].pc = "gp_goto_wait"
    /\ Quiet
    /\ \/ /\ CanNavigate(task[t].page, task[t].url)
          /\ pg' = [pg EXCEPT ![task[t].page].url = Href(task[t].url)]
          /\ pages' = SetEntry(pages, normalizeUrl(task[t].url), task[t].page, nextSeq + 1)
          /\ nextSeq' = IF Has(pages, normalizeUrl(task[t].url)) THEN nextSeq ELSE nextSeq + 1
          /\ SetTask(t, GetPageReturns([task[t] EXCEPT !.at = 1], task[t].page))
       \/ /\ \E why \in GotoFailures :
               /\ why = "navigationTimeout" => CanNavigate(task[t].page, task[t].url)
               /\ SetTask(t, [GetPageThrows(task[t]) EXCEPT !.cause = why])
          /\ UNCHANGED <<pages, nextSeq, pg>>
    /\ UNCHANGED <<browser, initializing, cleanupTimer, attempts, procs, now,
                   srvVars>>

\* navigate(), lines 286-293: explicit navigation if the page is elsewhere.
NavigateCheck(t) ==
    /\ task[t].pc = "nav_check"
    /\ IF pg[task[t].page].url # normalizeUrl(task[t].url)
       THEN SetTask(t, [task[t] EXCEPT !.pc = "nav_goto_wait"])
       ELSE SetTask(t, Finish(task[t], "ok"))
    /\ UNCHANGED <<mgrVars, envVars, srvVars>>

\* navigate(), lines 290-308: page.goto(normalizedUrl) settled.
NavigateGotoSettles(t) ==
    /\ task[t].pc = "nav_goto_wait"
    /\ Quiet
    /\ \/ /\ CanNavigate(task[t].page, normalizeUrl(task[t].url))
          /\ pg' = [pg EXCEPT ![task[t].page].url = Href(normalizeUrl(task[t].url))]
          /\ IF Has(pages, normalizeUrl(task[t].url))
             THEN UNCHANGED <<pages, nextSeq>>
             ELSE /\ pages' = SetEntry(pages, normalizeUrl(task[t].url), task[t].page, nextSeq + 1)
                  /\ nextSeq' = nextSeq + 1
          /\ SetTask(t, Finish([task[t] EXCEPT !.at = IF Has(pages, normalizeUrl(task[t].url)) THEN @ ELSE 1], "ok"))
       \/ /\ SetTask(t, Finish(task[t], "err"))
          /\ UNCHANGED <<pages, nextSeq, pg>>
    /\ UNCHANGED <<browser, initializing, cleanupTimer, attempts, procs, now,
                   srvVars>>

(* ----------------------------- closePage() ---------------------------- *)
\* A caller calls closePage(url), lines 323-331.
ClosePageCall(t, url) ==
    /\ Free(t)
    /\ LET n == normalizeUrl(url)
           r == [Idle EXCEPT !.op = "closePage", !.url = url]
       IN IF Has(pages, n) /\ ~IsClosed(Get(pages, n).page)
          THEN /\ pg' = WithCloseCalled({Get(pages, n).page}, FALSE)
               /\ SetTask(t, [r EXCEPT !.pc = "cp_wait", !.page = Get(pages, n).page])
          ELSE /\ SetTask(t, Finish(r, "ok"))
               /\ UNCHANGED pg
    /\ UNCHANGED <<mgrVars, attempts, procs, now, srvVars>>

\* closePage(), lines 331-336: close() settled; finally deletes the key.
ClosePageResume(t) ==
    /\ task[t].pc = "cp_wait"
    /\ CloseSettled(task[t].page)
    /\ pages' = Delete(pages, normalizeUrl(task[t].url))
    /\ SetTask(t, Finish(task[t], "ok"))
    /\ UNCHANGED <<browser, initializing, cleanupTimer, nextSeq, envVars,
                   srvVars>>

(* --------------------------- the idle sweep --------------------------- *)
AgedAtLeast(e, at) == at - e.createdAt >= maxAge

\* line 419: if (age > maxAge), with now read at line 413.
TooOld(e, at) == at - e.createdAt > maxAge

\* The Map iterator of line 416: the first entry inserted after the one
\* visited last.
EntriesAfter(ps, cur) == SelectSeq(ps, LAMBDA e : e.seq > cur)

\* The loop of lines 416-429 from the iterator's position, as far as its
\* next await.
RECURSIVE SweepLoop(_, _, _)
SweepLoop(ps, cur, at) ==
    LET rest == EntriesAfter(ps, cur) IN
    IF rest = <<>> THEN [pages |-> ps, cur |-> cur, closing |-> 0, url |-> NoUrl]
    ELSE LET e == Head(rest) IN
         IF ~TooOld(e, at) THEN SweepLoop(ps, e.seq, at)
         ELSE IF IsClosed(e.page) THEN SweepLoop(Delete(ps, e.url), e.seq, at)
         ELSE [pages |-> ps, cur |-> e.seq, closing |-> e.page, url |-> e.url]

\* After a pass of the loop: suspended in close(), or finished (nobody
\* awaits the timer's callback).
SweepStep(t, r, sw) ==
    /\ pages' = sw.pages
    /\ pg' = WithCloseCalled(IF sw.closing = 0 THEN {} ELSE {sw.closing}, FALSE)
    /\ SetTask(t, IF sw.closing = 0
                  THEN Idle
                  ELSE [r EXCEPT !.pc = "sw_wait", !.cur = sw.cur,
                                 !.page = sw.closing, !.url = sw.url])

\* The interval timer fires: cleanupOldPages(), lines 412-430.
TimerFires(t) ==
    /\ Free(t)
    /\ Quiet
    /\ cleanupTimer
    /\ SweepStep(t, [Idle EXCEPT !.op = "sweep", !.at = now], SweepLoop(pages, 0, now))
    /\ UNCHANGED <<browser, initializing, cleanupTimer, nextSeq, attempts, procs,
                   now, srvVars>>

\* cleanupOldPages(), lines 422-427: close() settled; delete the key, go on.
SweepResume(t) ==
    /\ task[t].pc = "sw_wait"
    /\ CloseSettled(task[t].page)
    /\ SweepStep(t, task[t],
                 SweepLoop(Delete(pages, task[t].url), task[t].cur, task[t].at))
    /\ UNCHANGED <<browser, initializing, cleanupTimer, nextSeq, attempts, procs,
                   now, srvVars>>

(* --------------------------- the environment -------------------------- *)
\* A page on which close() was called goes away.
PageCloses(p) ==
    /\ pg[p].st = "closing"
    /\ Quiet
    /\ pg' = [pg EXCEPT ![p].st = "closed"]
    /\ UNCHANGED <<mgrVars, attempts, procs, now, srvVars, task>>

\* page.close() rejects (the protocol call times out, the target does not
\* answer): the page is still there.
PageCloseFails(p) ==
    /\ pg[p].st = "closing"
    /\ Quiet
    /\ pg' = [pg EXCEPT ![p].st = "closeFailed"]
    /\ UNCHANGED <<mgrVars, attempts, procs, now, srvVars, task>>

\* A page goes away without the manager: the site closes its window, the
\* renderer crashes.
PageDies(p) ==
    /\ pg[p].st = "open"
    /\ Quiet
    /\ pg' = [pg EXCEPT ![p].st = "closed"]
    /\ UNCHANGED <<mgrVars, attempts, procs, now, srvVars, task>>

\* A page leaves the URL it was sent to: the site redirects, a script or a
\* tool navigates it.
PageWanders(p) ==
    /\ pg[p].st = "open"
    /\ Quiet
    /\ pg[p].url \notin {BlankUrl, ElsewhereUrl}
    /\ pg' = [pg EXCEPT ![p].url = ElsewhereUrl]
    /\ UNCHANGED <<mgrVars, attempts, procs, now, srvVars, task, calls>>

\* Time passes, d minutes at once.
Tick(d) ==
    /\ now + d <= MaxTime * (maxAge + 1)
    /\ Quiet
    /\ now' = now + d
    /\ UNCHANGED <<mgrVars, attempts, procs, pg, srvVars, task>>

(* ------------------------- DebuggerMCPServer -------------------------- *)
\* The events start() listens to (lines 184-226).
Events == {"SIGINT", "SIGTERM", "stdinEnd", "stdinClose", "uncaughtException",
           "unhandledRejection"}

\* Listeners that all pass the status 0.
AlwaysZero(ev) == 0

\* The status each listener passes to gracefulShutdown.
ExitCodeOf(ev) == IF ev = "uncaughtException" THEN 1 ELSE 0

\* A gracefulShutdown that does not look at the flag.
NeverShuttingDown == FALSE

\* line 135: if (this.isShuttingDown)
ShuttingDown == isShuttingDown

\* isInitialized(), lines 484-486
isInitialized == browser # 0

\* A caller calls isInitialized(): it returns at once.
IsInitializedCall(t) ==
    /\ Free(t)
    /\ SetTask(t, Finish([Idle EXCEPT !.op = "isInitialized"],
                         IF isInitialized THEN "true" ELSE "false"))
    /\ UNCHANGED <<mgrVars, envVars, srvVars>>

\* gracefulShutdown(code), lines 133-147, as far as its first await: behind
\* the flag it returns; else it sets the flag and calls close() on an
\* initialized manager, server.close() otherwise.
gracefulShutdown(code) ==
    /\ triggers < MaxTriggers
    /\ triggers' = triggers + 1
    /\ IF ShuttingDown
       THEN UNCHANGED <<mgrVars, envVars, task, isShuttingDown, shutdownCloses>>
       ELSE /\ isShuttingDown' = TRUE
            /\ \E t \in Tasks :
                 /\ Free(t)
                 /\ LET r == [Idle EXCEPT !.op = "shutdown", !.code = code] IN
                    IF isInitialized
                    THEN /\ EnterClose(t, [r EXCEPT !.seen = AttemptsInFlight,
                                                    !.ready = ~InitPending])
                         /\ shutdownCloses' = Min(shutdownCloses + 1, 2)
                    ELSE /\ SetTask(t, [r EXCEPT !.pc = "gs_server"])
                         /\ UNCHANGED <<cleanupTimer, pg, shutdownCloses>>
            /\ UNCHANGED <<browser, initializing, pages, nextSeq, attempts,
                           procs, now>>
    /\ UNCHANGED <<exited, exitCode, calls>>

\* One of the events of lines 184-226 is delivered; an unhandled rejection
\* shuts down when its message has ECONNRESET (line 221).
Trigger(ev, econnreset) ==
    /\ ev # "uncaughtException" => Quiet
    /\ econnreset => ev = "unhandledRejection"
    /\ IF ev = "unhandledRejection" /\ ~econnreset
       THEN UNCHANGED vars
       ELSE gracefulShutdown(ExitCodeOf(ev))

\* gracefulShutdown, lines 147-153: server.close() settles, its error is
\* logged, and finally calls process.exit(exitCode).
ServerCloseSettles(t) ==
    /\ task[t].pc = "gs_server"
    /\ exited' = TRUE
    /\ exitCode' = task[t].code
    /\ SetTask(t, Finish(task[t], "ok"))
    /\ UNCHANGED <<mgrVars, envVars, isShuttingDown, triggers, shutdownCloses, calls>>

(* --------------------------- specifications --------------------------- *)
\* A call is made while the behaviour's budget of calls lasts.
Budgeted(call) == calls < MaxCalls /\ calls' = calls + 1 /\ call

\* Hosts are alike: of those the state does not mention, callers take the
\* lowest.
HostsInUse ==
    {pages[i].url.host : i \in DOMAIN pages} \cup {task[t].url.host : t \in Tasks}
        \cup {pg[p].url.host : p \in PageIds}
InOrder(url) ==
    \/ url.host \in HostsInUse
    \/ \A h \in Hosts : h < url.host => h \in HostsInUse

\* The attempts started by initialize() run.
AttemptSteps == \E a \in AttemptIds : ResolvePath(a) \/ LaunchSettles(a)

\* Callers that only call initialize(): no close() is involved.
NextInit ==
    \/ \E t \in Tasks : Budgeted(InitializeCall(t))
    \/ /\ \/ \E t \in Tasks : InitializeResume(t)
          \/ AttemptSteps
       /\ UNCHANGED calls

SpecInit == Init /\ [][NextInit]_vars

\* close() resumes; the browser it closes exits.
CloseSteps ==
    \/ \E t \in Tasks :
         \/ CloseAfterInit(t) \/ CloseAllPagesResume(t)
         \/ CloseBrowser(t) \/ CloseBrowserResume(t)
    \/ \E b \in ProcIds : BrowserExits(b)

\* getPage(url) resumes; what it awaits settles.
GetPageSteps ==
    \/ \E t \in Tasks :
         \/ GetPageAfterInit(t) \/ EvictResume(t) \/ GetPageNewPage(t)
         \/ NewPageSettles(t) \/ GotoSettles(t)
    \/ \E p \in PageIds : PageCloses(p)

\* Callers of initialize(), close() and getPage(url) for one URL.
NextLife ==
    \/ \E t \in Tasks :
         Budgeted(InitializeCall(t) \/ CloseCall(t) \/ GetPageCall(t, AbsUrl(1)))
    \/ /\ \/ \E t \in Tasks : InitializeResume(t)
          \/ AttemptSteps
          \/ CloseSteps
          \/ GetPageSteps
       /\ UNCHANGED calls

SpecLife == Init /\ [][NextLife]_vars

\* Callers of initialize(), close() and isInitialized().
NextQuery ==
    \/ \E t \in Tasks :
         Budgeted(InitializeCall(t) \/ CloseCall(t) \/ IsInitializedCall(t))
    \/ /\ \/ \E t \in Tasks : InitializeResume(t)
          \/ AttemptSteps
          \/ CloseSteps
       /\ UNCHANGED calls

SpecQuery == Init /\ [][NextQuery]_vars

\* The server: tool calls that get the page of one URL, the events start()
\* listens to, until process.exit().
NextServer ==
    /\ ~exited
    /\ \/ \E t \in Tasks : Budgeted(GetPageCall(t, AbsUrl(1)))
       \/ \E ev \in Events, econnreset \in BOOLEAN : Trigger(ev, econnreset)
       \/ \E t \in Tasks : ServerCloseSettles(t)
       \/ /\ \/ AttemptSteps
             \/ CloseSteps
             \/ GetPageSteps
          /\ UNCHANGED calls

SpecServer == Init /\ [][NextServer]_vars

\* The URLs in their normalized form.
PoolUrls == {AbsUrl(h) : h \in Hosts}

\* No operation is under way.
NoneBusy == \A t \in Tasks : task[t].pc \in {"idle", "done"}

\* One caller at a time: getPage(url) is called when the call before it has
\* returned.  Time passes between the calls.
NextSeq ==
    \/ \E t \in Tasks, url \in PoolUrls :
         /\ NoneBusy
         /\ InOrder(url)
         /\ Budgeted(GetPageCall(t, url))
    \/ /\ \/ AttemptSteps
          \/ GetPageSteps
          \/ NoneBusy /\ now < MaxTime /\ Tick(1)
       /\ UNCHANGED calls

SpecSeq == Init /\ [][NextSeq]_vars

\* Page p is the page of a pool entry.
Pooled(p) == \E i \in DOMAIN pages : pages[i].page = p

\* Callers of getPage(url) for normalized URLs, and pooled pages closing on
\* their own.
NextHeal ==
    \/ \E t \in Tasks, url \in PoolUrls :
         /\ InOrder(url)
         /\ Budgeted(GetPageCall(t, url))
    \/ /\ \/ AttemptSteps
          \/ GetPageSteps
          \/ \E p \in PageIds : Pooled(p) /\ PageDies(p)
       /\ UNCHANGED calls

SpecHeal == Init /\ [][NextHeal]_vars

\* One caller at a time calls getPage(url) and closePage(url) with URLs as
\* users write them: absolute, without the final slash, or a bare host.
NextUrls ==
    \/ \E t \in Tasks, url \in Urls :
         /\ NoneBusy
         /\ InOrder(url)
         /\ Budgeted(GetPageCall(t, url) \/ ClosePageCall(t, url))
    \/ /\ \/ AttemptSteps
          \/ GetPageSteps
          \/ \E t \in Tasks : ClosePageResume(t)
       /\ UNCHANGED calls

SpecUrls == Init /\ [][NextUrls]_vars

\* One caller at a time calls getPage(url); between the calls time passes
\* and the timer starts a pass of the idle sweep; pooled pages close on
\* their own, and page.close() may reject.
NextSweep ==
    \/ \E t \in Tasks, url \in PoolUrls :
         /\ NoneBusy
         /\ InOrder(url)
         /\ Budgeted(GetPageCall(t, url))
    \/ /\ \/ AttemptSteps
          \/ GetPageSteps
          \/ \E t \in Tasks : (NoneBusy /\ TimerFires(t)) \/ SweepResume(t)
          \/ \E p \in PageIds : PageCloseFails(p) \/ (Pooled(p) /\ PageDies(p))
          \/ Tick(maxAge)
          \/ now >= maxAge /\ now % maxAge = 0 /\ Tick(1)
       /\ UNCHANGED calls

SpecSweep == Init /\ [][NextSweep]_vars

\* One caller at a time calls getPage(url) or getPage(); pooled pages close
\* on their own.
NextAny ==
    \/ \E t \in Tasks, url \in PoolUrls \cup {NoUrl} :
         /\ NoneBusy
         /\ InOrder(url)
         /\ Budgeted(GetPageCall(t, url))
    \/ /\ \/ AttemptSteps
          \/ GetPageSteps
          \/ \E p \in PageIds : Pooled(p) /\ PageDies(p)
       /\ UNCHANGED calls

SpecAny == Init /\ [][NextAny]_vars

\* One caller at a time calls getPage(url) or closePage(url) for normalized
\* URLs; pooled pages close on their own, and page.close() may reject.
NextClosePage ==
    \/ \E t \in Tasks, url \in PoolUrls :
         /\ NoneBusy
         /\ InOrder(url)
         /\ Budgeted(GetPageCall(t, url) \/ ClosePageCall(t, url))
    \/ /\ \/ AttemptSteps
          \/ GetPageSteps
          \/ \E t \in Tasks : ClosePageResume(t)
          \/ \E p \in PageIds : PageCloseFails(p) \/ (Pooled(p) /\ PageDies(p))
       /\ UNCHANGED calls

SpecClosePage == Init /\ [][NextClosePage]_vars

\* Callers of getPage(url) for normalized URLs and of closeAllPages();
\* pooled pages close on their own, and page.close() may reject.
NextDrain ==
    \/ \E t \in Tasks :
         \/ \E url \in PoolUrls : InOrder(url) /\ Budgeted(GetPageCall(t, url))
         \/ Budgeted(CloseAllPagesCall(t))
    \/ /\ \/ AttemptSteps
          \/ GetPageSteps
          \/ \E t \in Tasks : CloseAllPagesResume(t)
          \/ \E p \in PageIds : PageCloseFails(p) \/ (Pooled(p) /\ PageDies(p))
       /\ UNCHANGED calls

SpecDrain == Init /\ [][NextDrain]_vars

\* One caller at a time calls initialize(), getPage(url) for one URL, or
\* close().
NextRestart ==
    \/ \E t \in Tasks :
         /\ NoneBusy
         /\ Budgeted(InitializeCall(t) \/ CloseCall(t) \/ GetPageCall(t, AbsUrl(1)))
    \/ /\ \/ \E t \in Tasks : InitializeResume(t)
          \/ AttemptSteps
          \/ CloseSteps
          \/ GetPageSteps
       /\ UNCHANGED calls

SpecRestart == Init /\ [][NextRestart]_vars

\* What the server does without its client: attempts run, close() and
\* getPage(url) resume, what they await settles or rejects, server.close()
\* settles.
ExitSteps ==
    /\ ~exited
    /\ \/ \E t \in Tasks : ServerCloseSettles(t)
       \/ /\ \/ AttemptSteps
             \/ CloseSteps
             \/ GetPageSteps
             \/ \E p \in PageIds : PageCloseFails(p)
             \/ \E b \in ProcIds : BrowserCloseFails(b)
          /\ UNCHANGED calls

\* The server with one tool call at a time and the events start() listens
\* to.  What is awaited settles in the end, and the event loop runs the
\* continuations.
NextExit ==
    \/ /\ ~exited
       /\ \/ \E t \in Tasks : NoneBusy /\ Budgeted(GetPageCall(t, AbsUrl(1)))
          \/ \E ev \in Events, econnreset \in BOOLEAN : Trigger(ev, econnreset)
    \/ ExitSteps

SpecExit == Init /\ [][NextExit]_vars /\ WF_vars(ExitSteps)

\* Callers of navigate(url) and getPage(url) for normalized URLs; pooled
\* pages leave their URL or close on their own.
NextNav ==
    \/ \E t \in Tasks, url \in PoolUrls :
         /\ InOrder(url)
         /\ Budgeted(NavigateCall(t, url) \/ GetPageCall(t, url))
    \/ /\ \/ AttemptSteps
          \/ GetPageSteps
          \/ \E t \in Tasks : NavigateCheck(t) \/ NavigateGotoSettles(t)
          \/ \E p \in PageIds : Pooled(p) /\ (PageWanders(p) \/ PageDies(p))
       /\ UNCHANGED calls

SpecNav == Init /\ [][NextNav]_vars

\* Callers that only call initialize(), with the environment variable and
\* the file system the path is resolved from.
NextPaths ==
    \/ \E t \in Tasks : Budgeted(InitializeCall(t))
    \/ /\ \/ \E t \in Tasks : InitializeResume(t)
          \/ \E a \in AttemptIds, env \in EnvValues, files \in [Paths -> FileStates] :
               ResolvePathFrom(a, env, files)
          \/ \E a \in AttemptIds : LaunchSettles(a)
       /\ UNCHANGED calls

SpecPaths == Init /\ [][NextPaths]_vars

\* Callers of getPage(url) and close(); page.close() and browser.close()
\* may reject.
NextClose ==
    \/ \E t \in Tasks :
         \/ \E url \in PoolUrls : InOrder(url) /\ Budgeted(GetPageCall(t, url))
         \/ Budgeted(CloseCall(t))
    \/ /\ \/ AttemptSteps
          \/ CloseSteps
          \/ GetPageSteps
          \/ \E p \in PageIds : PageCloseFails(p)
          \/ \E b \in ProcIds : BrowserCloseFails(b)
       /\ UNCHANGED calls

SpecClose == Init /\ [][NextClose]_vars

\* Callers of getPage(url) and closePage(url) for normalized URLs, the idle
\* sweep, pages closing on their own, time passing.
NextPool ==
    \/ \E t \in Tasks, url \in PoolUrls :
         /\ InOrder(url)
         /\ Budgeted(GetPageCall(t, url) \/ ClosePageCall(t, url))
    \/ /\ \/ AttemptSteps
          \/ GetPageSteps
          \/ \E t \in Tasks :
               \/ ClosePageResume(t)
               \/ TimerFires(t) \/ SweepResume(t)
          \/ \E p \in PageIds : PageDies(p)
          \/ Tick(maxAge + 1)
       /\ UNCHANGED calls

SpecPool == Init /\ [][NextPool]_vars

\* What goes on between the calls: operations resume, awaited things settle.
Progress ==
    \/ \E t \in Tasks :
         \/ InitializeResume(t)
         \/ NavigateCheck(t) \/ NavigateGotoSettles(t)
         \/ ClosePageResume(t)
         \/ TimerFires(t) \/ SweepResume(t)
    \/ AttemptSteps
    \/ CloseSteps
    \/ GetPageSteps
    \/ \E p \in PageIds : PageDies(p) \/ PageWanders(p)
    \/ Tick(maxAge + 1)

\* Callers of the whole BrowserManager API, the timer and the environment.
Next ==
    \/ \E t \in Tasks :
         \/ Budgeted(InitializeCall(t) \/ CloseCall(t) \/ CloseAllPagesCall(t))
         \/ \E url \in Urls \cup {NoUrl} : Budgeted(GetPageCall(t, url))
         \/ \E url \in Urls : Budgeted(NavigateCall(t, url) \/ ClosePageCall(t, url))
    \/ Progress /\ UNCHANGED calls

Spec == Init /\ [][Next]_vars

(* ------------------------------- claims ------------------------------- *)
\* close() returns to its caller in this step.
CloseReturns(t) ==
    /\ task[t].pc \in {"cl_browser", "cl_browser_wait"}
    /\ task'[t].pc = "done"

\* C1: from the uninitialized state and with no close(), concurrent
\* initialize() calls cause one attempt: never two attempts in flight, a call
\* made while an attempt is in flight joins that attempt, and every call gets
\* the outcome of the attempt it joined, so all of them the same.
C1_OneAttemptSharedOutcome ==
    /\ Cardinality(AttemptsInFlight) <= 1
    /\ \A t \in Tasks :
         task[t].op = "initialize" =>
           /\ task[t].seen # {} => task[t].att \in task[t].seen
           /\ task[t].pc = "init_wait" /\ InFlight(task[t].att) => initializing = task[t].att
           /\ task[t].pc = "done" /\ task[t].att # 0 => task[t].res = Outcome(task[t].att)

\* Two calls that overlapped have both returned the failure of one attempt,
\* the only one that was made.
C1_Witness ==
    /\ Len(attempts) = 1
    /\ \A t \in Tasks :
         /\ task[t].op = "initialize" /\ task[t].pc = "done"
         /\ task[t].att = 1 /\ task[t].res = "err"
    /\ \E t \in Tasks : task[t].seen = {1}

\* C2: at most one browser launch is in flight, whatever the interleaving
\* of the calls.
C2_AtMostOneLaunchInFlight ==
    Cardinality({a \in AttemptIds : attempts[a].st = "launching"}) <= 1

\* C3: at most one browser process launched by the manager is alive, and a
\* process that is alive is the one this.browser refers to.
C3_OneLiveReachableBrowser ==
    /\ Cardinality(LiveProcs) <= 1
    /\ \A b \in LiveProcs : browser = b

\* C4: teardown happens once: browser.close() is called at most once on a
\* browser process, close() calls page.close() at most once on a page, and
\* no close() throws.
C4_TeardownOnce ==
    /\ \A b \in ProcIds : procs[b].readyCloses <= 1
    /\ \A p \in PageIds : pg[p].readyCloses <= 1
    /\ \A t \in Tasks : task[t].op = "close" /\ task[t].pc = "done" => task[t].res = "ok"

\* C5: whatever events are delivered and however they interleave,
\* gracefulShutdown tears down at most once: isShuttingDown never goes back
\* to false, a shutdown starts only while the flag is not set, it calls
\* BrowserManager.close() at most once, and an event delivered while the flag
\* is set changes nothing.
C5_ShutdownOnce ==
    [][/\ isShuttingDown => isShuttingDown'
       /\ \A t \in Tasks :
            task[t].op # "shutdown" /\ task'[t].op = "shutdown" =>
              ~isShuttingDown /\ isShuttingDown'
       /\ shutdownCloses' <= 1
       /\ isShuttingDown /\ triggers' # triggers =>
            UNCHANGED <<mgrVars, envVars, task, isShuttingDown, exited, exitCode,
                        shutdownCloses>>]_vars

\* The process has exited with the status of an uncaught exception, after
\* one close() of an initialized manager and with later events delivered.
C5_Witness ==
    /\ exited /\ exitCode = 1
    /\ shutdownCloses = 1
    /\ triggers = MaxTriggers
    /\ \E b \in ProcIds : procs[b].st = "dead"

\* C6: right after an insertion into the pool, by getPage(url) or by
\* navigate(url), the pool holds at most maxPages entries.
C6_PoolBoundAfterInsertion ==
    [][Len(pages') > Len(pages) => Len(pages') <= maxPages]_vars

\* The entries a step removes from the pool, and those it keeps.
Removed == {i \in DOMAIN pages : ~Has(pages', pages[i].url)}
Kept == DOMAIN pages \ Removed

\* maxPages + 1 calls, one after the other and each for another URL, have all
\* stored their page.
AllStored ==
    /\ NoneBusy
    /\ calls = maxPages + 1
    /\ Len(pg) = maxPages + 1
    /\ \A p \in PageIds : pg[p].url = AbsUrl(p)

\* C7: with getPage called for one URL after the other, the pool never
\* exceeds maxPages; eviction removes nothing while size < maxPages, and with
\* size >= maxPages it removes size - maxPages + 1 entries, none of them
\* newer than one it keeps; after maxPages + 1 URLs the pool holds all of
\* them but the first.
C7_SequentialEviction ==
    [][/\ Len(pages') <= maxPages
       /\ Len(pages) < maxPages => Removed = {}
       /\ Removed # {} =>
            /\ Cardinality(Removed) = Len(pages) - maxPages + 1
            /\ \A i \in Removed, k \in Kept : pages[i].createdAt <= pages[k].createdAt
       /\ AllStored' =>
            {pages'[i].url : i \in DOMAIN pages'} = {AbsUrl(h) : h \in 2..(maxPages + 1)}]_vars

\* maxPages + 1 URLs were requested in order, each at a later time: the pool
\* holds the last maxPages of them, and the page of the first is closed.
C7_Witness ==
    /\ AllStored
    /\ Len(pages) = maxPages
    /\ \A i \in DOMAIN pages : pages[i].url = AbsUrl(i + 1)
    /\ \A i \in 1..(Len(pages) - 1) : pages[i].createdAt < pages[i + 1].createdAt
    /\ IsClosed(1)

\* getPage(url) returns a page to its caller in this step.
GetPageReturnsPage(t) ==
    /\ task[t].pc # "done"
    /\ task'[t].pc = "done" /\ task'[t].op = "getPage" /\ task'[t].res = "ok"

\* C8: getPage(url) never returns a handle that is closed; when it finds
\* the entry of its URL with a closed handle, that entry is out of the pool in
\* the same step, and the handle it then returns is a new one.
C8_DeadHandleHealed ==
    [][\A t \in Tasks :
         /\ GetPageReturnsPage(t) => pg'[task'[t].page].st # "closed"
         /\ task'[t].op = "getPage" /\ task'[t].dead # 0 =>
              /\ \A i \in DOMAIN pages' : pages'[i].page # task'[t].dead
              /\ GetPageReturnsPage(t) =>
                   /\ task'[t].page > task'[t].dead
                   /\ Has(pages', normalizeUrl(task'[t].url))
                   /\ Get(pages', normalizeUrl(task'[t].url)).page = task'[t].page]_vars

\* A call found its URL's pooled page closed and has returned a new page,
\* which the pool now holds for that URL.
C8_Witness ==
    \E t \in Tasks :
      /\ task[t].op = "getPage" /\ task[t].pc = "done" /\ task[t].res = "ok"
      /\ task[t].dead # 0 /\ IsClosed(task[t].dead)
      /\ task[t].page # task[t].dead
      /\ Has(pages, task[t].url) /\ Get(pages, task[t].url).page = task[t].page

\* C9: a close() called while an initialize() was in flight returns only
\* after that attempt has finished, and leaves this.browser null and the
\* browser process of that attempt, if it launched one, dead.
C9_CloseAwaitsInit ==
    [][\A t \in Tasks :
         CloseReturns(t) /\ task[t].seen # {} =>
           /\ task'[t].res = "ok"
           /\ browser' = 0
           /\ \A a \in task[t].seen :
                /\ AttemptDone(a)
                /\ attempts[a].br # 0 => procs'[attempts[a].br].st = "dead"]_vars

\* C10: close() stops the cleanup timer: when a close() returns and
\* initialize() has not been called since that close() was called, the timer
\* is not set, also when an initialize() was in flight at the call.
C10_TimerStoppedByClose ==
    [][\A t \in Tasks :
         CloseReturns(t) /\ ~task[t].late => ~cleanupTimer']_vars

\* An attempt fails in this step.
Fails(a) == InFlight(a) /\ attempts'[a].st \in {"resolveFailed", "launchFailed"}

\* C11: when an attempt fails, at path resolution or at launch, the browser
\* stays null, no timer is started and this.initializing is cleared; the
\* callers awaiting it get an error that tells the cause; and an
\* initialize() called afterwards starts a new attempt instead of returning
\* the old failure.
C11_FailureResetsForRetry ==
    [][/\ \A a \in AttemptIds :
            Fails(a) => /\ browser' = 0 /\ ~cleanupTimer'
                        /\ initializing' = 0
       /\ \A t \in Tasks :
            /\ task'[t].op = "initialize" /\ task'[t].pc = "done"
                  /\ task'[t].att # 0 /\ attempts'[task'[t].att].st # "ok" =>
                 /\ task'[t].res = "err"
                 /\ task'[t].cause = attempts'[task'[t].att].st
            /\ task[t].pc # "init_wait" /\ task'[t].pc = "init_wait"
                  /\ browser = 0 /\ initializing = 0
                  /\ (\E a \in AttemptIds : attempts[a].st \in {"resolveFailed", "launchFailed"}) =>
                 /\ task'[t].att = Len(attempts) + 1
                 /\ attempts'[task'[t].att].st = "resolving"]_vars

\* After a failed launch, whose error a caller got, a later call has started
\* a second attempt, which has launched the browser.
C11_Witness ==
    /\ Len(attempts) = 2
    /\ attempts[1].st = "launchFailed" /\ attempts[2].st = "ok"
    /\ browser # 0 /\ cleanupTimer
    /\ \E t \in Tasks :
         /\ task[t].op = "initialize" /\ task[t].pc = "done"
         /\ task[t].att = 1 /\ task[t].res = "err" /\ task[t].cause = "launchFailed"

\* getPage(url) throws in this step.
GetPageFails(t) ==
    /\ task[t].pc # "done"
    /\ task'[t].pc = "done" /\ task'[t].op = "getPage" /\ task'[t].res = "err"

\* Every key of the pool is there once, and its entry holds a page that
\* browser.newPage() returned.
PoolConsistent ==
    /\ \A i, j \in DOMAIN pages : pages[i].url = pages[j].url => i = j
    /\ \A i \in DOMAIN pages : pages[i].page \in PageIds

\* C12: when getPage(url) fails, after a failed launch, a failed newPage or
\* a failed navigation, the pool has no entry for the page the call created,
\* the throw itself changes neither the pool nor the lifecycle, and the pool
\* is consistent.
C12_FailedGetPageNotPooled ==
    [][\A t \in Tasks :
         GetPageFails(t) =>
           /\ \A i \in DOMAIN pages' : pages'[i].page # task'[t].page
           /\ UNCHANGED <<pages, browser, initializing, cleanupTimer>>
           /\ PoolConsistent']_vars

\* A navigation failed while the pool held another URL's page: the page the
\* call created is open and outside the pool.
C12_Witness ==
    \E t \in Tasks :
      /\ task[t].op = "getPage" /\ task[t].pc = "done" /\ task[t].res = "err"
      /\ task[t].page # 0 /\ ~IsClosed(task[t].page)
      /\ pages # <<>>
      /\ \A i \in DOMAIN pages : pages[i].page # task[t].page

\* C13: when the navigation of getPage(url) times out, the caller gets the
\* failure, and the page that was created is in the pool under the
\* normalized URL.
C13_TimedOutPageStaysPooled ==
    [][\A t \in Tasks :
         GetPageFails(t) /\ task'[t].cause = "navigationTimeout" =>
           /\ Has(pages', normalizeUrl(task'[t].url))
           /\ Get(pages', normalizeUrl(task'[t].url)).page = task'[t].page]_vars

\* C14: normalizeUrl is idempotent on every URL a caller passes, and it
\* takes a bare host to the absolute https URL of that host, the key its
\* absolute form has.
C14_NormalizeIdempotent ==
    \A t \in Tasks :
      LET u == task[t].url IN
        u # NoUrl =>
          /\ normalizeUrl(normalizeUrl(u)) = normalizeUrl(u)
          /\ u = BareUrl(u.host) => normalizeUrl(u) = normalizeUrl(AbsUrl(u.host))

\* No getPage(url) is under way before or after the step: what changes the
\* pool is the idle sweep.
OnlySweeping ==
    \A t \in Tasks : /\ task[t].pc \in {"idle", "done", "sw_wait"}
                     /\ task'[t].pc \in {"idle", "done", "sw_wait"}

\* The time the pass under way read at its start; of a pass that starts in
\* this step, the time of the step.
SweepTime ==
    IF \E t \in Tasks : task[t].pc = "sw_wait"
    THEN task[CHOOSE t \in Tasks : task[t].pc = "sw_wait"].at
    ELSE now

\* A pass of the idle sweep ends in this step.
PassEnds ==
    /\ \A t \in Tasks : task'[t].pc # "sw_wait"
    /\ \/ \E t \in Tasks : task[t].pc = "sw_wait"
       \/ pages' # pages

\* C15: a pass of the idle sweep removes the entries that are more than
\* maxAge (10 minutes) old at the time the pass started, and no other: an
\* entry it removes is older than that and its page is closed or had close()
\* called on it, the entries it keeps are unchanged and in their order, and
\* when the pass ends no entry older than maxAge is left, also when close()
\* failed on a page of the pass.
C15_SweepRemovesExactlyOld ==
    [][OnlySweeping =>
         /\ \A i \in Removed :
              /\ SweepTime - pages[i].createdAt > 10
              /\ pg'[pages[i].page].st = "closed" \/ pg'[pages[i].page].closeCalls >= 1
         /\ \A i \in Kept : Get(pages', pages[i].url) = pages[i]
         /\ \A k \in DOMAIN pages' : \E i \in Kept : pages[i] = pages'[k]
         /\ PassEnds =>
              \A i \in DOMAIN pages' : ~(SweepTime - pages'[i].createdAt > 10)]_vars

\* Two getPage(url) calls stored an entry at minute 0 and one at minute 10;
\* the pass of minute 11 closed and removed the first and left the second.
C15_Witness ==
    /\ calls = 2
    /\ NoneBusy
    /\ now = 11
    /\ Len(pages) = 1
    /\ pages[1].createdAt = 10
    /\ ~IsClosed(pages[1].page)
    /\ \E p \in PageIds : /\ ~Pooled(p)
                          /\ pg[p].closeCalls = 1
                          /\ IsClosed(p)
\* C16: getPage() without a URL hands out a live page of the pool whenever
\* the pool holds one, at whatever position: it goes on to create a page only
\* when no pooled page is live, the page it returns from the pool is a live
\* page of the pool, and the page it creates is returned blank, not stored
\* and not navigated.
C16_NoUrlReturnsAnyLivePage ==
    [][\A t \in Tasks :
         (task'[t].op = "getPage" /\ task'[t].url = NoUrl /\ task'[t] # task[t]) =>
            /\ (task[t].pc # "gp_newpage_wait" /\ task'[t].pc = "gp_newpage_wait") =>
                  \A i \in DOMAIN pages : IsClosed(pages[i].page)
            /\ (task[t].pc # "gp_newpage_wait" /\ task'[t].pc = "done" /\ task'[t].res = "ok") =>
                  Pooled(task'[t].page) /\ ~IsClosed(task'[t].page)
            /\ (task[t].pc = "gp_newpage_wait" /\ task'[t].pc = "done" /\ task'[t].res = "ok") =>
                  /\ task'[t].page \notin PageIds
                  /\ pg'[task'[t].page].url = BlankUrl
                  /\ \A i \in DOMAIN pages' : pages'[i].page # task'[t].page]_vars
\* A close() is in progress: called and not yet returned.
Closing ==
    \E t \in Tasks :
        /\ task[t].op \in {"close", "shutdown"}
        /\ task[t].pc \in {"cl_init_wait", "cap_wait", "cl_browser", "cl_browser_wait"}

\* The lifecycle is Ready: a browser is there, no initialization is in
\* flight and no close() is in progress.
Ready == BrowserSet /\ ~InitPending /\ ~Closing

\* isInitialized() returns to the caller t in this step.
IsInitializedReturns(t) ==
    /\ Free(t)
    /\ calls' = calls + 1
    /\ task'[t].op = "isInitialized"

\* C17: isInitialized() returns true if and only if the lifecycle is Ready,
\* so false while an initialization is in flight and while a close() is in
\* progress, and it changes nothing.
C17_IsInitializedIffReady ==
    [][\A t \in Tasks :
         IsInitializedReturns(t) =>
            /\ task'[t].res = "true" <=> Ready
            /\ UNCHANGED <<mgrVars, envVars, srvVars>>]_vars
\* closePage(url) returns to the caller t in this step.
ClosePageReturns(t) ==
    /\ task'[t].op = "closePage" /\ task'[t].pc = "done"
    /\ \/ task[t].pc = "cp_wait"
       \/ Free(t) /\ calls' = calls + 1

\* C18: when closePage(url) returns, the pool has no entry under the
\* normalized URL, whether the entry's page was live, already closed, or its
\* close() rejected; closePage(url) does not throw, and with no entry for the
\* URL it changes nothing.
C18_ClosePageLeavesNoEntry ==
    [][\A t \in Tasks :
         ClosePageReturns(t) =>
            /\ ~Has(pages', normalizeUrl(task'[t].url))
            /\ task'[t].res = "ok"
            /\ ~Has(pages, normalizeUrl(task'[t].url)) =>
                  UNCHANGED <<mgrVars, envVars, srvVars>>]_vars
\* closeAllPages() is called by the caller t in this step.
CloseAllPagesCalled(t) ==
    /\ Free(t)
    /\ calls' = calls + 1
    /\ task'[t].op = "closeAllPages"

\* closeAllPages() returns to the caller t in this step.
CloseAllPagesReturns(t) ==
    /\ task[t].op = "closeAllPages" /\ task[t].pc = "cap_wait"
    /\ task'[t].pc = "done"

\* C19: closeAllPages() calls close() on every page that is live in the pool
\* when it is called and waits for all of them; when it returns the pool is
\* empty, every one of those closes has settled, each page is closed unless
\* its own close() failed, and the caller gets no error.
C19_CloseAllPagesDrains ==
    [][\A t \in Tasks :
         /\ CloseAllPagesCalled(t) =>
               \A i \in DOMAIN pages :
                  ~IsClosed(pages[i].page) =>
                     /\ pg'[pages[i].page].closeCalls >= 1
                     /\ pg'[pages[i].page].st = "closing"
                     /\ pages[i].page \in task'[t].wait
         /\ CloseAllPagesReturns(t) =>
               /\ pages' = <<>>
               /\ task'[t].res = "ok"
               /\ \A p \in task[t].wait :
                    pg[p].closeCalls >= 1 /\ pg[p].st \in {"closed", "closeFailed"}]_vars

\* closeAllPages() has returned with the pool empty: of the two pages that
\* were in the pool one is closed though the close() of the other failed.
C19_Witness ==
    /\ calls = 3
    /\ Len(pg) = 2
    /\ pages = <<>>
    /\ \E t \in Tasks : task[t].op = "closeAllPages" /\ task[t].pc = "done" /\ task[t].res = "ok"
    /\ \E p, q \in PageIds :
          /\ pg[p].st = "closeFailed" /\ pg[p].closeCalls = 1
          /\ pg[q].st = "closed" /\ pg[q].closeCalls = 1
\* Pages whose removal from the pool has begun: an eviction, a sweep, a
\* closePage or a closeAllPages is suspended in their close().
BeingRemoved ==
    UNION {CASE task[u].pc \in {"cp_wait", "sw_wait"} -> {task[u].page}
             [] task[u].pc = "cap_wait" -> task[u].wait
             [] task[u].pc = "gp_evict_wait" -> {Head(task[u].list).page}
             [] OTHER -> {} : u \in Tasks}

\* C20: getPage(url) never returns a page whose removal from the pool has
\* begun, that is a page in whose close() an eviction, a sweep, a closePage
\* or a closeAllPages is suspended.
C20_NoHandleUnderRemoval ==
    [][\A t \in Tasks :
         GetPageReturnsPage(t) => task'[t].page \notin BeingRemoved]_vars
\* C21: close() does not throw and returns with this.browser null, the pool
\* empty and this.initializing null, also when page.close() or
\* browser.close() rejected.
C21_CloseReachesTerminalState ==
    [][\A t \in Tasks :
         CloseReturns(t) =>
            /\ task'[t].res = "ok"
            /\ browser' = 0
            /\ pages' = <<>>
            /\ initializing' = 0]_vars
\* A close() has closed a browser of the manager.
ClosedBefore == \E b \in ProcIds : procs[b].closeCalls >= 1

\* The caller t calls initialize() or getPage(url) in this step.
NeedsBrowser(t) ==
    /\ Free(t)
    /\ calls' = calls + 1
    /\ task'[t].op \in {"initialize", "getPage"}

\* C22: after a close() has completed, with calls made one at a time, an
\* initialize() or a getPage(url) starts a new attempt; the attempt's
\* success stores a new live browser process and starts the timer; and the
\* call returns its success with the browser set and the timer running.
C22_RestartAfterClose ==
    [][ClosedBefore =>
         /\ \A t \in Tasks :
              (NeedsBrowser(t) /\ ~BrowserSet /\ ~InitPending) =>
                 /\ task'[t].att = Len(attempts) + 1
                 /\ initializing' = Len(attempts) + 1
                 /\ attempts'[Len(attempts) + 1].st = "resolving"
         /\ \A a \in AttemptIds :
              (InFlight(a) /\ attempts'[a].st = "ok") =>
                 /\ browser' = Len(procs) + 1
                 /\ procs'[browser'].st = "alive"
                 /\ cleanupTimer'
         /\ \A t \in Tasks :
              (task[t].pc # "done" /\ task'[t].pc = "done" /\ task'[t].res = "ok"
                 /\ task'[t].op \in {"initialize", "getPage"}) =>
                 /\ BrowserSet' /\ procs'[browser'].st = "alive"
                 /\ cleanupTimer']_vars

\* A browser was launched and closed; the initialize() or getPage(url) called
\* after that launched a second one, which is alive with the timer running.
C22_Witness ==
    /\ NoneBusy
    /\ Len(procs) = 2
    /\ procs[1].st = "dead" /\ procs[1].closeCalls = 1
    /\ browser = 2 /\ procs[2].st = "alive"
    /\ cleanupTimer
    /\ initializing = 0
    /\ \E t \in Tasks :
          /\ task[t].op \in {"initialize", "getPage"}
          /\ task[t].pc = "done" /\ task[t].res = "ok" /\ task[t].att = 2
\* The event ev starts the shutdown in this step.
ShutdownStartsBy(ev, econnreset) ==
    /\ ~isShuttingDown /\ isShuttingDown'
    /\ Trigger(ev, econnreset)

C24_MarkerWhileInFlight ==
    /\ initializing # 0 => InFlight(initializing)
    /\ \A a \in AttemptIds : InFlight(a) => initializing = a
\* navigate(url) returns a page to the caller t in this step.
NavigateReturnsPage(t) ==
    /\ task[t].pc \in {"nav_check", "nav_goto_wait"}
    /\ task'[t].pc = "done" /\ task'[t].res = "ok"

\* C25: navigate(url) has the page from getPage(url); it calls page.goto once
\* more if and only if the page is not at the normalized URL; and when it
\* returns, the pool's entry under the normalized URL holds the page it
\* returns, which is at that URL.
C25_NavigateRedirectsAndPools ==
    [][\A t \in Tasks :
         /\ (task[t].pc = "nav_check" /\ task'[t] # task[t]) =>
               /\ task'[t].page = task[t].page
               /\ task'[t].pc = "nav_goto_wait"
                     <=> pg[task[t].page].url # normalizeUrl(task[t].url)
               /\ task'[t].pc = "done"
                     <=> pg[task[t].page].url = normalizeUrl(task[t].url)
         /\ (task[t].pc = "nav_goto_wait" /\ task'[t] # task[t]) =>
               task'[t].pc = "done" /\ task'[t].page = task[t].page
         /\ NavigateReturnsPage(t) =>
               /\ Has(pages', normalizeUrl(task'[t].url))
               /\ Get(pages', normalizeUrl(task'[t].url)).page = task'[t].page
               /\ pg'[task'[t].page].url = normalizeUrl(task'[t].url)]_vars
\* The attempts whose path resolution has settled and not been followed by
\* the launch's result.
Resolved == {a \in AttemptIds : attempts[a].st \in {"launching", "resolveFailed"}}

\* C26: with the environment variable set (to a path: line 130 takes the
\* empty string for not set), the path resolved is the
\* variable's if a readable file is there, and else the resolution fails
\* naming that path alone; with the variable not set, the path resolved is
\* the first of the list at which a readable file is, and the resolution
\* fails naming all of the list if there is none.
C26_OverrideThenFirstCandidate ==
    \A a \in Resolved :
        LET r == attempts[a]
            readable == {i \in DOMAIN searchPaths : r.files[searchPaths[i]] = "readable"}
        IN IF r.env \notin {EnvUnset, EmptyPath}
           THEN IF r.files[r.env] = "readable"
                THEN r.st = "launching" /\ r.path = r.env
                ELSE r.st = "resolveFailed" /\ r.names = {r.env}
           ELSE IF readable # {}
                THEN /\ r.st = "launching"
                     /\ \E i \in readable : /\ r.path = searchPaths[i]
                                            /\ \A j \in readable : i <= j
                ELSE /\ r.st = "resolveFailed"
                     /\ r.names = {searchPaths[i] : i \in DOMAIN searchPaths}
\* Pages opened in the browser and not closed.
NotClosed == {p \in PageIds : ~IsClosed(p)}

\* C27: when no operation is in progress, every page that was opened and is
\* not closed is the page of a pool entry, and there are at most maxPages
\* such pages.
C27_OpenPagesArePooled ==
    NoneBusy => /\ \A p \in NotClosed : Pooled(p)
                /\ Cardinality(NotClosed) <= maxPages

\* Task u holds page q, not closed, that a getPage(url) returned to it.
Holds(u, q, url) ==
    /\ task[u].pc = "done" /\ task[u].op = "getPage" /\ task[u].res = "ok"
    /\ task[u].page = q /\ ~IsClosed(q)
    /\ normalizeUrl(task[u].url) = url

\* C28: a pool entry whose page is not closed keeps its page as long as
\* its key is in the pool, and getPage(url) returns no page other than the
\* one, not closed, that another caller holds for the same URL.
C28_OnePagePerUrl ==
    [][/\ \A i \in DOMAIN pages :
            (~IsClosed(pages[i].page) /\ Has(pages', pages[i].url))
                => Get(pages', pages[i].url).page = pages[i].page
       /\ \A t, u \in Tasks, q \in PageIds :
            (t # u /\ GetPageReturnsPage(t)
                   /\ Holds(u, q, normalizeUrl(task'[t].url)))
                => task'[t].page = q]_vars

\* C29: an entry leaves the pool only when close() has been called on its
\* page or the page is closed.
C29_RemovedEntryHadItsPageClosed ==
    [][\A i \in DOMAIN pages :
         ~Has(pages', pages[i].url)
            => \/ IsClosed(pages[i].page)
               \/ pg'[pages[i].page].closeCalls >= 1]_vars

\* C30: when the process has exited through gracefulShutdown, no browser
\* process that the manager launched is alive and no puppeteer.launch() is
\* in progress.
C30_NoBrowserLeftAtExit ==
    exited => /\ LiveProcs = {}
              /\ \A a \in AttemptIds : attempts[a].st # "launching"

====
